---- MODULE Spec2Model ----
(***************************************************************************)
(* WaveguideCoplanar (kqcircuits/elements/waveguide_coplanar.py).          *)
(*                                                                         *)
(* Lengths are integers in nanometres (0.001 um), angles are integers in   *)
(* degrees.  The paths fed to produce_waveguide have legs parallel to the  *)
(* axes (or of zero length), so that every heading is a multiple of 90     *)
(* degrees and the trigonometry of the source is exact on integers.        *)
(* Python indices are kept: P(k) is points[k] of the source.               *)
(***************************************************************************)
EXTENDS Integers, Sequences, FiniteSets

VARIABLES
    points,                    \* self.path.each_point()
    term1, term2, r,           \* self.term1, self.term2, self.r
    pc,                        \* position in produce_waveguide / is_continuous
    i,                         \* loop index of produce_waveguide
    segment_last,              \* the cursor of produce_waveguide
    cells,                     \* insert_cell calls, in order
    polys,                     \* polygons inserted by produce_end_termination
    ports,                     \* add_port calls, in order
    shapes,                    \* annotation-layer shapes met by begin_shapes_rec
    tolerance,                 \* argument of is_continuous
    endpoints,                 \* is_continuous: endpoints
    vi,                        \* is_continuous: outer loop index i
    num_non_connected_points,  \* is_continuous: counter
    is_continuous              \* is_continuous: the returned flag

vars == <<points, term1, term2, r, pc, i, segment_last, cells, polys, ports,
          shapes, tolerance, endpoints, vi, num_non_connected_points, is_continuous>>

synthVars == <<points, term1, term2, r, i, segment_last, cells, polys, ports>>

----------------------------------------------------------------------------
(* Bounds and parameter values *)

MaxPoints == 4
MaxShapes == 3

corner_safety_overlap == 1

\* coordinates of the path points; r, term1, term2, a, b, margin and n are
\* parameters of the element, read at the lines the definitions are mapped to
GridX == {0, 100000, 200000}
GridY == {0, 100000}
Radii == {30000, 60000}
TermLengths == {0, 20000}
ElemA == 10000
ElemB == 6000
ElemMargin == 5000
ElemN == 64

\* points and tolerances of the pieces handed to is_continuous directly
VerifierPoints == {<<0, 0>>, <<2, 0>>, <<5, 0>>, <<5, 4>>}
VerifierTolerances == {2, 4}
RenderTolerances == {corner_safety_overlap, 2 * corner_safety_overlap,
                     2 * corner_safety_overlap + 1}

----------------------------------------------------------------------------
(* Geometry primitives (pya.DPoint / pya.DVector) *)

Abs(x) == IF x < 0 THEN -x ELSE x
Sgn(x) == IF x > 0 THEN 1 ELSE IF x < 0 THEN -1 ELSE 0

VSub(p, q) == <<p[1] - q[1], p[2] - q[2]>>
VAdd(p, q) == <<p[1] + q[1], p[2] + q[2]>>
VScale(v, k) == <<v[1] * k, v[2] * k>>

\* DPoint.distance / DVector.length: Euclidean; exact for the axis-parallel
\* differences the synthesizer meets.
VLength(v) == Abs(v[1]) + Abs(v[2])
Distance(p, q) == VLength(VSub(p, q))

\* v * (1 / v.length()) for a non-zero axis-parallel v.
UnitVec(v) == <<v[1] \div VLength(v), v[2] \div VLength(v)>>

\* DVector.vprod_sign: sign of v1.x*v2.y - v1.y*v2.x.  The signs of the two
\* products settle it unless they agree.
VprodSign(v1, v2) ==
    LET p == Sgn(v1[1]) * Sgn(v2[2])
        q == Sgn(v1[2]) * Sgn(v2[1])
    IN  IF p # q THEN Sgn(p - q)
        ELSE Sgn(v1[1] * v2[2] - v1[2] * v2[1])

\* math.atan2(y, x) in degrees, for axis-parallel (x, y); atan2(0, 0) = 0 and
\* atan2(+0.0, x < 0) = +pi.
Atan2Deg(y, x) ==
    IF y > 0 THEN 90
    ELSE IF y < 0 THEN -90
    ELSE IF x < 0 THEN 180
    ELSE 0

\* sign of cos / sin of a multiple of 45 degrees
SgnCos(d) ==
    LET m == d % 360
    IN  IF m \in {0, 45, 315} THEN 1 ELSE IF m \in {90, 270} THEN 0 ELSE -1
SgnSin(d) ==
    LET m == d % 360
    IN  IF m \in {45, 90, 135} THEN 1 ELSE IF m \in {0, 180} THEN 0 ELSE -1

\* (cos d, sin d) for a multiple of 90 degrees
DirVec(d) == <<SgnCos(d), SgnSin(d)>>

\* pya.DTrans.R270.trans(v)
R270(v) == <<v[2], -v[1]>>

----------------------------------------------------------------------------
(* get_corner_data *)

\* (math.pi - (alpha2 - alpha1)) / 2, in degrees
HalfAngle(alpha1, alpha2) == (180 - (alpha2 - alpha1)) \div 2

\* math.sin(half) is 0.0 only for half = 0; math.sin(math.pi) is 1.2e-16.
SinIsZero(half) == half = 0

\* s * r / math.sin(half) * math.cos(alphacorner) and ... * math.sin(alphacorner).
\* With s = 0 the offset is 0; with s # 0 the legs are perpendicular, half
\* and alphacorner are odd multiples of 45 degrees and |cos| = |sin|.
CornerOffset(s, rad, half, alphacorner) ==
    IF s = 0 THEN <<0, 0>>
    ELSE <<s * rad * SgnSin(half) * SgnCos(alphacorner),
           s * rad * SgnSin(half) * SgnSin(alphacorner)>>

GetCornerData(point1, point2, point3, rad) ==
    LET v1 == VSub(point2, point1)
        v2 == VSub(point3, point2)
        alpha1 == Atan2Deg(v1[2], v1[1])
        alpha2 == Atan2Deg(v2[2], v2[1])
        half == HalfAngle(alpha1, alpha2)
        alphacorner == half + alpha2
        s == VprodSign(v1, v2)
    IN  [raises |-> SinIsZero(half),
         v1 |-> v1, v2 |-> v2, alpha1 |-> alpha1, alpha2 |-> alpha2,
         corner_pos |-> IF SinIsZero(half) THEN point2
                        ELSE VAdd(point2, CornerOffset(s, rad, half, alphacorner))]

\* v1.vprod_sign(v2) * self.r / math.tan((math.pi - (alpha2 - alpha1)) / 2):
\* tan is 1 at 45 and 225 degrees, -1 at -45 and 135 degrees; with s = 0 the
\* quotient is 0 (tan(pi/2) is 1.6e16 and tan(pi) is -1.2e-16 in floating point).
Cut(s, rad, half) ==
    IF s = 0 THEN 0
    ELSE s * rad * (IF half % 180 = 45 THEN 1 ELSE -1)

CurveAlwaysEmitted(alpha) == TRUE

\* abs(alpha) >= min_angle, min_angle = 1e-5 rad: of the multiples of 90
\* degrees only 0 is below the threshold.
CurveEmitted(alpha) == Abs(alpha) >= 1

----------------------------------------------------------------------------
(* produce_end_termination *)

Poly(layer, pts, shift) ==
    [layer |-> layer, pts |-> [k \in 1..4 |-> VAdd(pts[k], shift)]]

CapPolygon(u, v, term_len, shift) ==
    Poly("base_metal_gap_wo_grid",
         << VScale(u, ElemA \div 2 + ElemB),
            VAdd(VScale(u, ElemA \div 2 + ElemB), VScale(v, term_len)),
            VAdd(VScale(u, -(ElemA \div 2) - ElemB), VScale(v, term_len)),
            VScale(u, -(ElemA \div 2) - ElemB) >>, shift)

KeepOutPolygon(u, v, term_len, shift) ==
    Poly("ground_grid_avoidance",
         << VScale(u, ElemA \div 2 + ElemB + ElemMargin),
            VAdd(VScale(u, ElemA \div 2 + ElemB + ElemMargin), VScale(v, term_len)),
            VAdd(VScale(u, -(ElemA \div 2) - ElemB - ElemMargin), VScale(v, term_len)),
            VScale(u, -(ElemA \div 2) - ElemB - ElemMargin) >>, shift)

\* 1 / point_1.distance(point_2) raises ZeroDivisionError
TerminationRaises(point_1, point_2) == Distance(point_1, point_2) = 0

CapAlwaysDrawn(term_len) == term_len >= 0

\* line 151
CapDrawn(term_len) == term_len > 0

\* the polygons one call inserts, in order
ProduceEndTermination(point_1, point_2, term_len) ==
    LET v == UnitVec(VSub(point_2, point_1))
        u == R270(v)
    IN  (IF CapDrawn(term_len) THEN <<CapPolygon(u, v, term_len, point_2)>> ELSE <<>>)
        \o <<KeepOutPolygon(u, v, term_len + ElemMargin, point_2)>>

----------------------------------------------------------------------------
(* produce_waveguide *)

P(k) == points[k + 1]
NPoints == Len(points)

Straight(l, angle, pos) ==
    [kind |-> "straight", l |-> l, alpha |-> 0, n |-> 0, angle |-> angle, pos |-> pos]
Curved(alpha, angle, pos) ==
    [kind |-> "curved", l |-> 0, alpha |-> alpha, n |-> ElemN, angle |-> angle, pos |-> pos]

Port(name, pos, dir) == [name |-> name, pos |-> pos, dir |-> dir]

\* line 48
PortA == Port("a", P(0), VSub(P(0), P(1)))

PortBReversed == Port("b", P(NPoints - 1), VSub(P(NPoints - 2), P(NPoints - 1)))

\* line 91
PortB == Port("b", P(NPoints - 1), VSub(P(NPoints - 1), P(NPoints - 2)))

\* the cursor before the first segment
FirstSegmentStart ==
    IF term1 > 0 /\ NPoints > 1
    THEN VSub(P(0), VScale(UnitVec(VSub(P(1), P(0))), corner_safety_overlap))
    ELSE P(0)

StraightLengthNoOverlap(segment_start, segment_end, cut) ==
    Distance(segment_start, segment_end) - cut

\* length of the straight segment before a corner
StraightLength(segment_start, segment_end, cut) ==
    Distance(segment_start, segment_end) - cut + corner_safety_overlap

NextSegmentStartNoCut(corner, v2, cut) ==
    VSub(corner, VScale(UnitVec(v2), corner_safety_overlap))

\* the cursor after a corner
NextSegmentStart(corner, v2, cut) ==
    VSub(VAdd(corner, VScale(UnitVec(v2), cut)),
         VScale(UnitVec(v2), corner_safety_overlap))

HeadingDeg(segment_start, segment_end) ==
    Atan2Deg(segment_end[2] - segment_start[2], segment_end[1] - segment_start[1])

\* length of the last segment
LastLength(segment_start, segment_end) ==
    Distance(segment_start, segment_end)
        + (IF term2 > 0 THEN corner_safety_overlap ELSE 0)

\* lines 44-56
Begin ==
    /\ pc = "start"
    /\ IF NPoints < 2 \/ TerminationRaises(P(1), P(0))
       THEN /\ pc' = "error"
            /\ UNCHANGED <<polys, ports, segment_last>>
       ELSE /\ polys' = polys \o ProduceEndTermination(P(1), P(0), term1)
            /\ ports' = Append(ports, PortA)
            /\ segment_last' = FirstSegmentStart
            /\ pc' = "loop"
    /\ UNCHANGED <<points, term1, term2, r, i, cells, shapes, tolerance, endpoints,
                   vi, num_non_connected_points, is_continuous>>

\* lines 58-79, one iteration
Corner ==
    /\ pc = "loop"
    /\ i < NPoints - 2
    /\ LET d == GetCornerData(P(i), P(i + 1), P(i + 2), r)
           segment_start == segment_last
           segment_end == P(i + 1)
           s == VprodSign(d.v1, d.v2)
           cut == Cut(s, r, HalfAngle(d.alpha1, d.alpha2))
           l == StraightLength(segment_start, segment_end, cut)
           angle == HeadingDeg(segment_start, segment_end)
           straight == Straight(l, angle, segment_start)
           alpha == d.alpha2 - d.alpha1
       IN  IF d.raises
           THEN /\ pc' = "error"
                /\ UNCHANGED <<cells, segment_last, i>>
           ELSE IF VLength(d.v2) = 0
           THEN /\ cells' = Append(cells, straight)
                /\ pc' = "error"
                /\ UNCHANGED <<segment_last, i>>
           ELSE /\ segment_last' = NextSegmentStart(P(i + 1), d.v2, cut)
                /\ cells' = IF CurveEmitted(alpha)
                            THEN cells \o <<straight,
                                   Curved(alpha, d.alpha1 - s * 90, d.corner_pos)>>
                            ELSE Append(cells, straight)
                /\ i' = i + 1
                /\ pc' = "loop"
    /\ UNCHANGED <<points, term1, term2, r, polys, ports, shapes, tolerance, endpoints,
                   vi, num_non_connected_points, is_continuous>>

\* lines 81-95
Last ==
    /\ pc = "loop"
    /\ ~(i < NPoints - 2)
    /\ LET segment_start == segment_last
           segment_end == P(NPoints - 1)
           l == LastLength(segment_start, segment_end)
           angle == HeadingDeg(segment_start, segment_end)
       IN  IF TerminationRaises(P(NPoints - 2), P(NPoints - 1))
           THEN /\ pc' = "error"
                /\ UNCHANGED <<polys, ports, cells>>
           ELSE /\ polys' = polys \o ProduceEndTermination(P(NPoints - 2), P(NPoints - 1), term2)
                /\ ports' = Append(ports, PortB)
                /\ cells' = Append(cells, Straight(l, angle, segment_start))
                /\ pc' = "done"
    /\ UNCHANGED <<points, term1, term2, r, i, segment_last, shapes, tolerance, endpoints,
                   vi, num_non_connected_points, is_continuous>>

----------------------------------------------------------------------------
(* The annotation paths of the placed cells: WaveguideCoplanarStraight draws *)
(* its path from (0, 0) to (l, 0), WaveguideCoplanarCurved from the start of *)
(* the arc, (r, 0), to its end at angle alpha around the origin.             *)

Shape(is_path, pts, angle, disp) ==
    [is_path |-> is_path, pts |-> pts, dtrans |-> [angle |-> angle, disp |-> disp]]

AnnotationPath(cell) ==
    IF cell.kind = "straight"
    THEN Shape(TRUE, << <<0, 0>>, <<cell.l, 0>> >>, cell.angle, cell.pos)
    ELSE Shape(TRUE, << VScale(DirVec(0), r), VScale(DirVec(cell.alpha), r) >>,
               cell.angle, cell.pos)

Render ==
    /\ pc = "done"
    /\ shapes' = [k \in 1..Len(cells) |-> AnnotationPath(cells[k])]
    /\ tolerance' \in RenderTolerances
    /\ pc' = "rendered"
    /\ UNCHANGED <<synthVars, endpoints, vi, num_non_connected_points, is_continuous>>

----------------------------------------------------------------------------
(* is_continuous *)

\* dtrans * point: rotation by a multiple of 90 degrees, then displacement
Transform(dtrans, p) ==
    LET c == SgnCos(dtrans.angle)
        s == SgnSin(dtrans.angle)
    IN  VAdd(<<c * p[1] - s * p[2], s * p[1] + c * p[2]>>, dtrans.disp)

\* lines 188-196: first and last point of a path, in cell coordinates
ShapeEndpoints(shape) ==
    << Transform(shape.dtrans, shape.pts[1]),
       Transform(shape.dtrans, shape.pts[Len(shape.pts)]) >>

IsPath(shape) == shape.is_path

\* lines 183-197
CollectEndpoints(shs) ==
    LET paths == SelectSeq(shs, IsPath)
    IN  [k \in 1..Len(paths) |-> ShapeEndpoints(paths[k])]

\* p.distance(q) < tol, on squares; the guard keeps the squares small
CloserThan(p, q, tol) ==
    /\ Abs(p[1] - q[1]) < tol
    /\ Abs(p[2] - q[2]) < tol
    /\ (p[1] - q[1]) * (p[1] - q[1]) + (p[2] - q[2]) * (p[2] - q[2]) < tol * tol

ConnectsToItself(eps, idx, j, point, tol) ==
    \/ CloserThan(point, eps[j + 1][2], tol)
    \/ CloserThan(point, eps[j + 1][1], tol)

ConnectsToLastOnly(eps, idx, j, point, tol) ==
    /\ idx # j
    /\ CloserThan(point, eps[j + 1][2], tol)

\* the test of line 212-213 for segment j
ConnectsTo(eps, idx, j, point, tol) ==
    /\ idx # j
    /\ \/ CloserThan(point, eps[j + 1][2], tol)
       \/ CloserThan(point, eps[j + 1][1], tol)

\* find_connected_point: found_connected_point after the loop over j
FindConnectedPoint(eps, idx, point, tol) ==
    \E j \in 0..(Len(eps) - 1) : ConnectsTo(eps, idx, j, point, tol)

\* line 222: zero-length segments are ignored
IsCounted(piece) == piece[1] # piece[2]

\* what iteration idx of the outer loop adds to num_non_connected_points
NonConnected(eps, idx, tol) ==
    IF IsCounted(eps[idx + 1])
    THEN (IF FindConnectedPoint(eps, idx, eps[idx + 1][1], tol) THEN 0 ELSE 1)
         + (IF FindConnectedPoint(eps, idx, eps[idx + 1][2], tol) THEN 0 ELSE 1)
    ELSE 0

TooManyOffByOne(count) == count >= 2

\* line 228
TooMany(count) == count > 2

\* lines 181-202
Collect ==
    /\ pc = "rendered"
    /\ endpoints' = CollectEndpoints(shapes)
    /\ vi' = 0
    /\ num_non_connected_points' = 0
    /\ is_continuous' = TRUE
    /\ pc' = "scan"
    /\ UNCHANGED <<synthVars, shapes, tolerance>>

\* lines 204-230, one iteration of the outer loop
Iter ==
    /\ pc = "scan"
    /\ vi < Len(endpoints)
    /\ num_non_connected_points' =
           num_non_connected_points + NonConnected(endpoints, vi, tolerance)
    /\ IF TooMany(num_non_connected_points')
       THEN /\ is_continuous' = FALSE
            /\ pc' = "returned"
            /\ vi' = vi
       ELSE /\ vi' = vi + 1
            /\ UNCHANGED <<is_continuous, pc>>
    /\ UNCHANGED <<synthVars, shapes, tolerance, endpoints>>

\* line 232, after the loop ran to its end
Return ==
    /\ pc = "scan"
    /\ vi = Len(endpoints)
    /\ pc' = "returned"
    /\ UNCHANGED <<synthVars, shapes, tolerance, endpoints, vi,
                   num_non_connected_points, is_continuous>>

\* the whole loop of lines 204-232 as a function of the endpoint list
RECURSIVE ScanFrom(_, _, _, _)
ScanFrom(eps, tol, idx, count) ==
    IF idx >= Len(eps) THEN TRUE
    ELSE LET c == count + NonConnected(eps, idx, tol)
         IN  IF TooMany(c) THEN FALSE ELSE ScanFrom(eps, tol, idx + 1, c)

IsContinuousOf(eps, tol) == ScanFrom(eps, tol, 0, 0)

----------------------------------------------------------------------------
(* Specifications *)

SeqsUpTo(S, n) == UNION {[1..m -> S] : m \in 0..n}

AxisParallel(p, q) == p[1] = q[1] \/ p[2] = q[2]

GridPoints == GridX \X GridY

Paths ==
    {ps \in SeqsUpTo(GridPoints, MaxPoints) :
        \A k \in 1..(Len(ps) - 1) : AxisParallel(ps[k], ps[k + 1])}

VerifierShapes ==
    {Shape(FALSE, <<>>, 0, <<0, 0>>)}
    \cup {Shape(TRUE, <<p>>, 0, <<0, 0>>) : p \in VerifierPoints}
    \cup {Shape(TRUE, <<pq[1], pq[2]>>, 0, <<0, 0>>) :
              pq \in {x \in VerifierPoints \X VerifierPoints : x[1] # x[2]}}

InitSynth ==
    /\ points \in Paths
    /\ term1 \in TermLengths
    /\ term2 \in TermLengths
    /\ r \in Radii
    /\ pc = "start"
    /\ i = 0
    /\ segment_last = <<0, 0>>
    /\ cells = <<>>
    /\ polys = <<>>
    /\ ports = <<>>
    /\ shapes = <<>>
    /\ tolerance = 0
    /\ endpoints = <<>>
    /\ vi = 0
    /\ num_non_connected_points = 0
    /\ is_continuous = TRUE

InitVerify ==
    /\ points = <<>>
    /\ term1 = 0
    /\ term2 = 0
    /\ r = 0
    /\ pc = "rendered"
    /\ i = 0
    /\ segment_last = <<0, 0>>
    /\ cells = <<>>
    /\ polys = <<>>
    /\ ports = <<>>
    /\ shapes \in SeqsUpTo(VerifierShapes, MaxShapes)
    /\ tolerance \in VerifierTolerances
    /\ endpoints = <<>>
    /\ vi = 0
    /\ num_non_connected_points = 0
    /\ is_continuous = TRUE

NextSynth == Begin \/ Corner \/ Last \/ Render \/ Collect \/ Iter \/ Return
NextVerify == Collect \/ Iter \/ Return

SpecSynth == InitSynth /\ [][NextSynth]_vars
SpecVerify == InitVerify /\ [][NextVerify]_vars

----------------------------------------------------------------------------
(* Properties of is_continuous (SpecVerify) *)

Returned == pc = "returned"

SqDist(p, q) == (p[1] - q[1]) * (p[1] - q[1]) + (p[2] - q[2]) * (p[2] - q[2])

\* endpoint e of piece k has an endpoint of another piece within tol of it
Matched(eps, k, e, tol) ==
    \E j \in (1..Len(eps)) \ {k} : \E f \in {1, 2} :
        tol > 0 /\ SqDist(eps[k][e], eps[j][f]) < tol * tol

\* the unmatched endpoints of the non-degenerate pieces
Unmatched(eps, tol) ==
    {ke \in (1..Len(eps)) \X {1, 2} :
        eps[ke[1]][1] # eps[ke[1]][2] /\ ~Matched(eps, ke[1], ke[2], tol)}

NearestSq(eps) ==
    LET ds == {SqDist(eps[1][e], eps[2][f]) : e \in {1, 2}, f \in {1, 2}}
    IN  CHOOSE d \in ds : \A x \in ds : d <= x

TwoPieces ==
    /\ Len(endpoints) = 2
    /\ endpoints[1][1] # endpoints[1][2]
    /\ endpoints[2][1] # endpoints[2][2]

\* C7: for exactly two non-degenerate pieces is_continuous returns true when
\* their nearest endpoints are closer than the tolerance and false when they
\* are farther apart than the tolerance.
C7_ToleranceBoundary ==
    (Returned /\ TwoPieces) =>
        /\ NearestSq(endpoints) < tolerance * tolerance => is_continuous
        /\ NearestSq(endpoints) > tolerance * tolerance => ~is_continuous

\* two pieces whose nearest endpoints are just beyond the tolerance
C7_Witness ==
    /\ Returned
    /\ TwoPieces
    /\ tolerance = 2
    /\ NearestSq(endpoints) = 9
    /\ ~is_continuous

SwapPieces(eps, k) ==
    [m \in 1..Len(eps) |-> IF m = k THEN eps[k + 1] ELSE IF m = k + 1 THEN eps[k] ELSE eps[m]]

FlipPiece(eps, k) ==
    [m \in 1..Len(eps) |-> IF m = k THEN <<eps[k][2], eps[k][1]>> ELSE eps[m]]

\* C9: the result does not depend on the order of the pieces nor on which
\* endpoint of a piece comes first.  Exchanging two neighbours and turning one
\* piece around generate every reordering, and the initial states hold every
\* list of pieces, so it is enough that these two leave the result unchanged.
C9_OrderIndependent ==
    Returned =>
        /\ \A k \in 1..(Len(endpoints) - 1) :
               IsContinuousOf(SwapPieces(endpoints, k), tolerance) = is_continuous
        /\ \A k \in 1..Len(endpoints) :
               IsContinuousOf(FlipPiece(endpoints, k), tolerance) = is_continuous

\* the loop was left at the second piece; with the last piece moved forward
\* it is left at another index
C9_Witness ==
    /\ Returned
    /\ Len(endpoints) = 3
    /\ ~is_continuous
    /\ vi = 1
    /\ NonConnected(endpoints, 2, tolerance) = 0
    /\ NonConnected(endpoints, 1, tolerance) = 2

----------------------------------------------------------------------------
(* Properties of produce_waveguide (SpecSynth) *)

Finished == pc \in {"done", "rendered", "scan", "returned"}
Raised == pc = "error"

Leg(k) == VSub(P(k + 1), P(k))
Legs == 0..(NPoints - 2)
Vertices == 1..(NPoints - 2)

HasZeroLeg == \E k \in Legs : Leg(k) = <<0, 0>>

Opposite(v1, v2) ==
    /\ Sgn(v1[1]) = -Sgn(v2[1])
    /\ Sgn(v1[2]) = -Sgn(v2[2])

HasReversal == \E k \in Vertices : Opposite(Leg(k - 1), Leg(k))

InvalidPath == NPoints < 2 \/ HasZeroLeg

ValidPath == NPoints >= 2 /\ ~HasZeroLeg /\ ~HasReversal

NothingEmitted == cells = <<>> /\ polys = <<>> /\ ports = <<>>

\* C4: a path with fewer than 2 points or with two equal consecutive points
\* is rejected with an error, and nothing has been emitted when the error is
\* raised.
C4_RejectedBeforeSynthesis ==
    InvalidPath => (~Finished /\ (Raised => NothingEmitted))

Dot(v, w) == v[1] * w[1] + v[2] * w[2]

\* poly is the rectangle with one edge centred at endpoint, of the given
\* half-width, reaching len in direction v
IsRectangle(poly, endpoint, v, halfwidth, len) ==
    LET u == <<-v[2], v[1]>>
    IN  /\ {<<Dot(VSub(poly.pts[k], endpoint), u), Dot(VSub(poly.pts[k], endpoint), v)>> :
                k \in 1..4}
           = {<<halfwidth, 0>>, <<halfwidth, len>>, <<-halfwidth, len>>, <<-halfwidth, 0>>}
        /\ \A k \in 1..4 : poly.pts[k] # poly.pts[(k % 4) + 1] \/ len = 0

OutwardA == <<Sgn(P(0)[1] - P(1)[1]), Sgn(P(0)[2] - P(1)[2])>>
OutwardB == <<Sgn(P(NPoints - 1)[1] - P(NPoints - 2)[1]),
              Sgn(P(NPoints - 1)[2] - P(NPoints - 2)[2])>>

IsKeepOut(poly) == poly.layer = "ground_grid_avoidance"
IsCap(poly) == poly.layer = "base_metal_gap_wo_grid"

\* C6: a call on a valid path emits exactly two keep-out polygons, one at
\* each end, of half-width a/2 + b + margin and length term_len + margin, and
\* a cap polygon at an end if and only if the termination length there is > 0.
C6_KeepOutAlwaysCapIffTerm ==
    ValidPath =>
        /\ ~Raised
        /\ Finished =>
            LET ko == SelectSeq(polys, IsKeepOut)
                caps == SelectSeq(polys, IsCap)
            IN  /\ Len(ko) = 2
                /\ Len(ko) + Len(caps) = Len(polys)
                /\ IsRectangle(ko[1], P(0), OutwardA,
                               ElemA \div 2 + ElemB + ElemMargin, term1 + ElemMargin)
                /\ IsRectangle(ko[2], P(NPoints - 1), OutwardB,
                               ElemA \div 2 + ElemB + ElemMargin, term2 + ElemMargin)
                /\ Len(caps) = (IF term1 > 0 THEN 1 ELSE 0) + (IF term2 > 0 THEN 1 ELSE 0)
                /\ term1 > 0 =>
                       IsRectangle(caps[1], P(0), OutwardA, ElemA \div 2 + ElemB, term1)
                /\ term2 > 0 =>
                       IsRectangle(caps[Len(caps)], P(NPoints - 1), OutwardB,
                                   ElemA \div 2 + ElemB, term2)

\* no termination at either end: the two keep-out polygons alone
C6_Witness ==
    /\ pc = "done"
    /\ ValidPath
    /\ term1 = 0
    /\ term2 = 0
    /\ Len(polys) = 2
    /\ \A k \in 1..2 : IsKeepOut(polys[k])

\* where the straight run of a placed cell ends
RunEnd(cell) == VAdd(cell.pos, VScale(DirVec(cell.angle), cell.l))

Straights == SelectSeq(cells, LAMBDA c : c.kind = "straight")
Curves == SelectSeq(cells, LAMBDA c : c.kind = "curved")

\* the middle point of a 3-point path lies between its neighbours, on their line
CollinearThree ==
    /\ NPoints = 3
    /\ ~HasZeroLeg
    /\ Sgn(Leg(0)[1]) = Sgn(Leg(1)[1])
    /\ Sgn(Leg(0)[2]) = Sgn(Leg(1)[2])

\* C3 as stated: a 3-point path with collinear middle point gives exactly one
\* straight run, from the first point to the last, and no arc.
C3_OneStraightRun ==
    (CollinearThree /\ Finished) =>
        /\ Len(Curves) = 0
        /\ Len(Straights) = 1
        /\ Straights[1].l >= Distance(P(0), P(2))

\* C3 amended: such a path gives no arc and exactly two straight runs along
\* the line: the first from the start of the path (corner_safety_overlap
\* before it when term1 > 0) to corner_safety_overlap past the middle point,
\* the second from corner_safety_overlap before the middle point to the last
\* point (corner_safety_overlap past it when term2 > 0).
C3_TwoOverlappingRuns ==
    (CollinearThree /\ Finished) =>
        LET d == <<Sgn(Leg(0)[1]), Sgn(Leg(0)[2])>>
            ov == corner_safety_overlap
        IN  /\ Len(cells) = 2
            /\ Len(Straights) = 2
            /\ cells[1].pos = (IF term1 > 0 THEN VSub(P(0), VScale(d, ov)) ELSE P(0))
            /\ RunEnd(cells[1]) = VAdd(P(1), VScale(d, ov))
            /\ cells[2].pos = VSub(P(1), VScale(d, ov))
            /\ RunEnd(cells[2]) = (IF term2 > 0 THEN VAdd(P(2), VScale(d, ov)) ELSE P(2))
            /\ cells[1].l > 0
            /\ cells[2].l > 0

C3_Witness ==
    /\ CollinearThree
    /\ pc = "done"
    /\ Len(cells) = 2

Scenario ==
    /\ points = << <<0, 0>>, <<100000, 0>>, <<100000, 100000>> >>
    /\ r = 30000
    /\ term1 = 0
    /\ term2 = 0

\* C8 as stated: the scenario places a straight run of length 100 - cut at
\* (0, 0) heading 0 degrees, an arc of turn +90 degrees and a straight run of
\* length 100 - cut heading 90 degrees, cut = 30, in this order, and no other cell.
C8_ScenarioLengths ==
    (Scenario /\ Finished) =>
        /\ Len(cells) = 3
        /\ cells[1].kind = "straight" /\ cells[1].pos = <<0, 0>> /\ cells[1].angle = 0
        /\ cells[1].l = 100000 - 30000
        /\ cells[2].kind = "curved" /\ cells[2].alpha = 90
        /\ cells[3].kind = "straight" /\ cells[3].angle = 90
        /\ cells[3].l = 100000 - 30000

\* C8 amended: both straight runs have length 100 - cut + corner_safety_overlap;
\* the first ends corner_safety_overlap past the arc's start (70, 0), the second
\* starts corner_safety_overlap before the arc's end (100, 30) and ends at
\* (100, 100); the arc is placed at (70, 30) turned by -90 degrees; the three
\* cells are placed in this order and no other cell is.
C8_ScenarioWithOverlap ==
    (Scenario /\ Finished) =>
        /\ Len(cells) = 3
        /\ cells[1].kind = "straight" /\ cells[1].pos = <<0, 0>> /\ cells[1].angle = 0
        /\ cells[1].l = 100000 - 30000 + corner_safety_overlap
        /\ cells[2].kind = "curved" /\ cells[2].alpha = 90
        /\ cells[2].pos = <<70000, 30000>> /\ cells[2].angle = -90
        /\ cells[3].kind = "straight" /\ cells[3].angle = 90
        /\ cells[3].pos = <<100000, 30000 - corner_safety_overlap>>
        /\ cells[3].l = 100000 - 30000 + corner_safety_overlap
        /\ RunEnd(cells[3]) = <<100000, 100000>>

C8_Witness ==
    /\ Scenario
    /\ pc = "done"
    /\ Len(cells) = 3

\* C10: at a vertex whose legs are not collinear the turn angle passed to the
\* arc is positive exactly when vprod_sign(v1, v2) = +1, negative exactly when
\* it is -1, and smaller than pi in magnitude.  (The arc of vertex i is the
\* last cell placed when the loop index has moved to i.)
C10_TurnMatchesSide ==
    (pc = "loop" /\ i >= 1 /\ cells[Len(cells)].kind = "curved") =>
        LET s == VprodSign(Leg(i - 1), Leg(i))
            turn == cells[Len(cells)].alpha
        IN  s # 0 =>
              /\ turn > 0 <=> s = 1
              /\ turn < 0 <=> s = -1
              /\ Abs(turn) < 180

\* r < min_leg_length / 2 for all legs
RadiusFits == \A k \in Legs : 2 * r < VLength(Leg(k))

JunctionGap(k) == Distance(endpoints[k][2], endpoints[k + 1][1])

====
